---- MODULE Spec2Model ----
(***************************************************************************)
(* Hamming(7,4) codec of submission/hamming_code.py: the input validator   *)
(* Support.check_input, the fault injectors Support.bitflip_rand and       *)
(* Support.bitflip_specific, and Hamming.encoder / parity_check / decoder. *)
(* Arrays are sequences; the Python index i is the TLA+ index i + 1.       *)
(***************************************************************************)
EXTENDS Integers, Sequences, FiniteSets

(* ------------------------------ bounds -------------------------------- *)
\* longest junk list / string / integer (in digits) handed to check_input
MaxLen == 5
\* bitflip_specific is called with every index in -MaxIndex..MaxIndex
MaxIndex == 8
\* bitflip_rand is called with every count in 0..MaxCount
MaxCount == 3
\* bits the fault injectors may invert on one codeword before a new one is taken
MaxFaults == 2

(* ------------------------- program constants -------------------------- *)
MessageLength == 4
CodewordLength == 7
MaxBitflips == 2
LastIndex == 6

\* G with the last entry of its first parity row dropped
G_WrongParityRow == << <<1, 1, 0, 0>>,
                       <<1, 0, 1, 1>>,
                       <<1, 0, 0, 0>>,
                       <<0, 1, 1, 1>>,
                       <<0, 1, 0, 0>>,
                       <<0, 0, 1, 0>>,
                       <<0, 0, 0, 1>> >>

\* GeneratorMatrix
G == << <<1, 1, 0, 1>>,
        <<1, 0, 1, 1>>,
        <<1, 0, 0, 0>>,
        <<0, 1, 1, 1>>,
        <<0, 1, 0, 0>>,
        <<0, 0, 1, 0>>,
        <<0, 0, 0, 1>> >>

\* H with its last column mistyped into a copy of the third
H_RepeatedColumn == << <<1, 0, 1, 0, 1, 0, 1>>,
                       <<0, 1, 1, 0, 0, 1, 1>>,
                       <<0, 0, 0, 1, 1, 1, 0>> >>

\* ParityCheckMatrix
H == << <<1, 0, 1, 0, 1, 0, 1>>,
        <<0, 1, 1, 0, 0, 1, 1>>,
        <<0, 0, 0, 1, 1, 1, 1>> >>

\* R reading the first message bit from position 1 instead of 3
R_WrongColumn == << <<1, 0, 0, 0, 0, 0, 0>>,
                    <<0, 0, 0, 0, 1, 0, 0>>,
                    <<0, 0, 0, 0, 0, 1, 0>>,
                    <<0, 0, 0, 0, 0, 0, 1>> >>

\* DecoderMatrix
R == << <<0, 0, 1, 0, 0, 0, 0>>,
        <<0, 0, 0, 0, 1, 0, 0>>,
        <<0, 0, 0, 0, 0, 1, 0>>,
        <<0, 0, 0, 0, 0, 0, 1>> >>

(* --------------------------- numpy helpers ---------------------------- *)
RECURSIVE SumTo(_, _)
SumTo(v, k) == IF k = 0 THEN 0 ELSE SumTo(v, k - 1) + v[k]

\* np.sum of a 1-d array
NpSum(v) == SumTo(v, Len(v))

\* np.matmul(M, v) % 2 for a matrix M and a 1-d array v
MatmulMod2(M, v) ==
  [i \in 1..Len(M) |-> NpSum([j \in 1..Len(v) |-> M[i][j] * v[j]]) % 2]

\* the transposition left out
Transpose_Missing(M) == M

\* M.transpose().tolist()
Transpose(M) == [j \in 1..Len(M[1]) |-> [i \in 1..Len(M) |-> M[i][j]]]

\* list.index(v): the first 0-based index holding v; -1 stands for the
\* ValueError Python raises when v is not in the list
ListIndex(list, v) ==
  IF \E i \in 1..Len(list) : list[i] = v
  THEN (CHOOSE i \in 1..Len(list) :
          list[i] = v /\ \A j \in 1..(i - 1) : list[j] # v) - 1
  ELSE -1

\* numpy's resolution of an integer index into an array of `size` elements:
\* the 1-based position it denotes, or 0 for IndexError
ArrayIndex(i, size) ==
  IF 0 <= i /\ i < size THEN i + 1
  ELSE IF -size <= i /\ i < 0 THEN i + size + 1
  ELSE 0

\* x[pos] = 1 - x[pos]   (pos is 1-based here)
Invert(x, pos) == [x EXCEPT ![pos] = 1 - x[pos]]

Bits == {0, 1}
Messages == [1..MessageLength -> Bits]
Codewords == [1..CodewordLength -> Bits]

\* the positions (1-based) where two arrays of equal length differ
Diff(a, b) == {i \in 1..Len(a) : a[i] # b[i]}

(* ----------------------- Support.check_input -------------------------- *)
\* An argument is a record [type, val, items]: type is the Python type's
\* name, val the value of an int, items the characters of a str or the
\* elements of a list / ndarray.  An element is [k |-> "int" | "float", v].
DigitChars == <<"0", "1", "2", "3", "4", "5", "6", "7", "8", "9">>

IntArg(v) == [type |-> "int", val |-> v, items |-> <<>>]
StrArg(chars) == [type |-> "str", val |-> 0, items |-> chars]
ListArg(elems) == [type |-> "list", val |-> 0, items |-> elems]
ArrayArg(elems) == [type |-> "ndarray", val |-> 0, items |-> elems]
OtherArg(t) == [type |-> t, val |-> 0, items |-> <<>>]
NoArg == OtherArg("none")

IntElem(v) == [k |-> "int", v |-> v]
FloatElem(v) == [k |-> "float", v |-> v]
\* a list of Python ints / an integer ndarray holding the numbers of s
IntElems(s) == [i \in 1..Len(s) |-> IntElem(s[i])]

RECURSIVE NatStr(_)
NatStr(v) ==
  IF v < 10 THEN <<DigitChars[v + 1]>>
  ELSE NatStr(v \div 10) \o <<DigitChars[(v % 10) + 1]>>

\* str(x) of an int, as its sequence of characters
Str(v) == IF v < 0 THEN <<"-">> \o NatStr(-v) ELSE NatStr(v)

\* str.isdigit() of one character
IsDigit(ch) == \E d \in 1..10 : DigitChars[d] = ch

\* int(digit) of one character; -1 stands for the ValueError of a non-digit
IntOfChar(ch) ==
  IF IsDigit(ch) THEN (CHOOSE d \in 1..10 : DigitChars[d] = ch) - 1 ELSE -1

\* x.replace(" ", "")
RECURSIVE RemoveSpaces(_)
RemoveSpaces(chars) ==
  IF chars = <<>> THEN <<>>
  ELSE IF Head(chars) = " " THEN RemoveSpaces(Tail(chars))
  ELSE <<Head(chars)>> \o RemoveSpaces(Tail(chars))

\* str.isdigit() of a string: non-empty and every character a digit
StrIsDigit(chars) ==
  chars # <<>> /\ \A i \in 1..Len(chars) : IsDigit(chars[i])

\* [int(digit) for digit in chars]
DigitList(chars) == [i \in 1..Len(chars) |-> IntElem(IntOfChar(chars[i]))]

Raise(e) == [error |-> e, x |-> <<>>]
Return(v) == [error |-> "none", x |-> v]

\* lines 60-72: the checks on the array np.array(x) built from `elems`
CheckArray(elems, input_length) ==
  IF Len(elems) # input_length THEN Raise("ValueError")
  ELSE IF \E i \in 1..Len(elems) : elems[i].k # "int" THEN Raise("ValueError")
  ELSE IF \E i \in 1..Len(elems) : elems[i].v \notin {0, 1} THEN Raise("ValueError")
  ELSE Return([i \in 1..Len(elems) |-> elems[i].v])

check_input(x, input_length) ==
  IF x.type \notin {"int", "list", "ndarray", "str"} THEN Raise("TypeError")
  ELSE IF x.type = "int" THEN
    LET chars == Str(x.val) IN
    IF \E i \in 1..Len(chars) : IntOfChar(chars[i]) = -1
    THEN Raise("ValueError")
    ELSE CheckArray(DigitList(chars), input_length)
  ELSE IF x.type = "str" THEN
    LET chars == RemoveSpaces(x.items) IN
    IF ~StrIsDigit(chars) THEN Raise("ValueError")
    ELSE CheckArray(DigitList(chars), input_length)
  ELSE CheckArray(x.items, input_length)

(* --------------------------- Hamming codec ---------------------------- *)
\* line 168: np.matmul(Hamming.G, input) % 2
EncodeWith(input) == MatmulMod2(G, input)

\* lines 186, 219: np.matmul(Hamming.H, codeword) % 2
Syndrome(cw) == MatmulMod2(H, cw)

\* lines 225, 245: np.matmul(Hamming.R, codeword) % 2
Project(cw) == MatmulMod2(R, cw)

\* the branch without the weight-1 refusal
ErrorStatus_CorrectsWeightOne(sum_error_syndrome) ==
  IF sum_error_syndrome = 0 THEN "NoError" ELSE "Corrected"

\* lines 222-229: the three-way branch on the sum of the syndrome
ErrorStatus(sum_error_syndrome) ==
  IF sum_error_syndrome = 0 THEN "NoError"
  ELSE IF sum_error_syndrome = 1 THEN "Uncorrectable"
  ELSE "Corrected"

\* lines 231-234: list_parity.index(error_syndrome.tolist())
ListParityIndex(error_syndrome) == ListIndex(Transpose(H), error_syndrome)

\* the index reported as it is, without the + 1
BitflipPos_ZeroBased(list_parity_index) == list_parity_index

\* line 236: add 1 to the index to get the position
BitflipPos(list_parity_index) == list_parity_index + 1

\* the bit set to 1 whatever it was
CorrectBit_SetsOne(cw, pos) == [cw EXCEPT ![(pos - 1) + 1] = 1]

\* lines 240-243: flip the bit at the position of the bitflip
CorrectBit(cw, pos) ==
  IF cw[(pos - 1) + 1] = 0 THEN [cw EXCEPT ![(pos - 1) + 1] = 1]
  ELSE [cw EXCEPT ![(pos - 1) + 1] = 0]

\* What one call of decoder does to a validated codeword array:
\* the printed report, the array afterwards and the exception, if any.
DecoderRun(cw) ==
  LET syn == Syndrome(cw)
      st == ErrorStatus(NpSum(syn))
      idx == ListParityIndex(syn)
      pos == BitflipPos(idx)
  IN  IF st = "NoError" THEN
        [error |-> "none", status |-> st, bitflip_pos |-> 0, error_syndrome |-> syn,
         codeword |-> cw, binary_decoded |-> Project(cw)]
      ELSE IF st = "Uncorrectable" THEN
        [error |-> "none", status |-> st, bitflip_pos |-> 0, error_syndrome |-> syn,
         codeword |-> cw, binary_decoded |-> <<>>]
      ELSE IF idx = -1 THEN
        [error |-> "ValueError", status |-> "None", bitflip_pos |-> 0,
         error_syndrome |-> syn, codeword |-> cw, binary_decoded |-> <<>>]
      ELSE
        [error |-> "none", status |-> st, bitflip_pos |-> pos, error_syndrome |-> syn,
         codeword |-> CorrectBit(cw, pos), binary_decoded |-> Project(CorrectBit(cw, pos))]

\* What one call of parity_check reports; it never writes to the array.
ParityCheckRun(cw) ==
  LET syn == Syndrome(cw)
      st == ErrorStatus(NpSum(syn))
      idx == ListParityIndex(syn)
  IN  IF st \in {"NoError", "Uncorrectable"} THEN
        [error |-> "none", status |-> st, bitflip_pos |-> 0, error_syndrome |-> syn]
      ELSE IF idx = -1 THEN
        [error |-> "ValueError", status |-> "None", bitflip_pos |-> 0, error_syndrome |-> syn]
      ELSE
        [error |-> "none", status |-> st, bitflip_pos |-> BitflipPos(idx),
         error_syndrome |-> syn]

(* ------------------------------- state -------------------------------- *)
VARIABLES
  codeword,       \* the 7-bit array the caller holds and passes to the calls
  message,        \* the validated 4-bit vector last encoded, <<>> if none
  nfaults,        \* bits inverted by the fault injectors on this codeword
  pc,             \* "idle", or "bitflip_rand" inside the loop of lines 97-103
  op,             \* the last call made
  before,         \* the codeword array handed to that call, <<>> if it takes none
  x,              \* the argument of check_input / encoder
  input_length,   \* the length check_input was asked for
  result,         \* the array check_input returned, <<>> if it raised
  bit_to_flip,    \* the index given to bitflip_specific
  number_of_bits_to_flip,   \* the count given to bitflip_rand
  flipped_bits,   \* bitflip_rand's set of indices already inverted
  error,          \* the exception the last call raised, "none" if it returned
  status,         \* what decoder / parity_check reported
  bitflip_pos,    \* the position they reported, 0 if none
  error_syndrome, \* the syndrome they computed
  binary_decoded  \* the 4-bit vector decoder printed, <<>> if none

vars == <<codeword, message, nfaults, pc, op, before, x, input_length, result,
          bit_to_flip, number_of_bits_to_flip, flipped_bits, error, status,
          bitflip_pos, error_syndrome, binary_decoded>>

\* the caller's ndarray as an argument of check_input
AsArray(cw) == ArrayArg(IntElems(cw))

\* the report variables of a call that reports no decoding
NoReport ==
  /\ status' = "None"
  /\ bitflip_pos' = 0
  /\ error_syndrome' = <<>>
  /\ binary_decoded' = <<>>

NoArgs ==
  /\ x' = NoArg
  /\ input_length' = 0
  /\ result' = <<>>
  /\ bit_to_flip' = 0
  /\ number_of_bits_to_flip' = 0
  /\ flipped_bits' = {}

Init ==
  /\ codeword \in Codewords
  /\ message = <<>>
  /\ nfaults = 0
  /\ pc = "idle"
  /\ op = "none"
  /\ before = <<>>
  /\ x = NoArg
  /\ input_length = 0
  /\ result = <<>>
  /\ bit_to_flip = 0
  /\ number_of_bits_to_flip = 0
  /\ flipped_bits = {}
  /\ error = "none"
  /\ status = "None"
  /\ bitflip_pos = 0
  /\ error_syndrome = <<>>
  /\ binary_decoded = <<>>

(* ------------------------------ actions ------------------------------- *)
\* Hamming.encoder(input), lines 154-170.  A run encodes at most one
\* message, as its first call; the array the caller held before is replaced.
EncoderCall(input) ==
  /\ LET r == check_input(input, MessageLength) IN
       /\ op' = "encoder"
       /\ before' = <<>>
       /\ x' = input
       /\ input_length' = MessageLength
       /\ result' = r.x
       /\ error' = r.error
       /\ IF r.error = "none"
          THEN /\ codeword' = EncodeWith(r.x)
               /\ message' = r.x
               /\ nfaults' = 0
          ELSE UNCHANGED <<codeword, message, nfaults>>
  /\ bit_to_flip' = 0
  /\ number_of_bits_to_flip' = 0
  /\ flipped_bits' = {}
  /\ NoReport
  /\ UNCHANGED pc

\* Hamming.parity_check(codeword), lines 172-203
ParityCheck ==
  /\ pc = "idle"
  /\ LET r == check_input(AsArray(codeword), CodewordLength) IN
       /\ op' = "parity_check"
       /\ before' = codeword
       /\ IF r.error # "none"
          THEN /\ error' = r.error
               /\ NoReport
          ELSE LET rep == ParityCheckRun(r.x) IN
               /\ error' = rep.error
               /\ status' = rep.status
               /\ bitflip_pos' = rep.bitflip_pos
               /\ error_syndrome' = rep.error_syndrome
               /\ binary_decoded' = <<>>
  /\ NoArgs
  /\ UNCHANGED <<codeword, message, nfaults, pc>>

\* Hamming.decoder(codeword), lines 205-247
Decoder ==
  /\ pc = "idle"
  /\ LET r == check_input(AsArray(codeword), CodewordLength) IN
       /\ op' = "decoder"
       /\ before' = codeword
       /\ IF r.error # "none"
          THEN /\ error' = r.error
               /\ NoReport
               /\ UNCHANGED codeword
          ELSE LET rep == DecoderRun(r.x) IN
               /\ error' = rep.error
               /\ status' = rep.status
               /\ bitflip_pos' = rep.bitflip_pos
               /\ error_syndrome' = rep.error_syndrome
               /\ binary_decoded' = rep.binary_decoded
               /\ codeword' = rep.codeword
  /\ NoArgs
  /\ UNCHANGED <<message, nfaults, pc>>

\* line 98: random.randint(0, 6) draws any of these
RandomIndices == 0..6

\* Support.bitflip_specific(x, bit_to_flip), lines 106-127
BitflipSpecific(index) ==
  /\ pc = "idle"
  /\ nfaults < MaxFaults
  /\ LET r == check_input(AsArray(codeword), CodewordLength)
         pos == ArrayIndex(index, CodewordLength)
     IN
       /\ op' = "bitflip_specific"
       /\ before' = codeword
       /\ bit_to_flip' = index
       /\ IF r.error # "none"
          THEN /\ error' = r.error
               /\ UNCHANGED <<codeword, nfaults>>
          ELSE IF index > LastIndex
          THEN /\ error' = "ValueError"
               /\ UNCHANGED <<codeword, nfaults>>
          ELSE IF pos = 0
          THEN /\ error' = "IndexError"
               /\ UNCHANGED <<codeword, nfaults>>
          ELSE /\ error' = "none"
               /\ codeword' = Invert(r.x, pos)
               /\ nfaults' = nfaults + 1
  /\ x' = NoArg
  /\ input_length' = 0
  /\ result' = <<>>
  /\ number_of_bits_to_flip' = 0
  /\ flipped_bits' = {}
  /\ NoReport
  /\ UNCHANGED <<message, pc>>

\* Support.bitflip_rand(x, number_of_bits_to_flip), lines 89-96:
\* the validation, the policy check and the entry into the loop
BitflipRand(count) ==
  /\ pc = "idle"
  /\ count > MaxBitflips \/ nfaults + count <= MaxFaults
  /\ LET r == check_input(AsArray(codeword), CodewordLength) IN
       /\ op' = "bitflip_rand"
       /\ before' = codeword
       /\ number_of_bits_to_flip' = count
       /\ flipped_bits' = {}
       /\ IF r.error # "none"
          THEN /\ error' = r.error
               /\ pc' = "idle"
          ELSE IF count > MaxBitflips
          THEN /\ error' = "ValueError"
               /\ pc' = "idle"
          ELSE /\ error' = "none"
               /\ pc' = "bitflip_rand"
  /\ x' = NoArg
  /\ input_length' = 0
  /\ result' = <<>>
  /\ bit_to_flip' = 0
  /\ NoReport
  /\ UNCHANGED <<codeword, message, nfaults>>

\* one pass of the loop of lines 97-103; it returns (pc back to "idle")
\* when len(flipped_bits) == number_of_bits_to_flip after the pass
BitflipRandLoop ==
  /\ pc = "bitflip_rand"
  /\ \E i \in RandomIndices :
       /\ i \notin flipped_bits => nfaults < MaxFaults
       /\ IF i \notin flipped_bits
          THEN /\ flipped_bits' = flipped_bits \cup {i}
               /\ codeword' = Invert(codeword, i + 1)
               /\ nfaults' = nfaults + 1
          ELSE UNCHANGED <<flipped_bits, codeword, nfaults>>
  /\ pc' = IF Cardinality(flipped_bits') = number_of_bits_to_flip
           THEN "idle" ELSE "bitflip_rand"
  /\ UNCHANGED <<message, op, before, x, input_length, result, bit_to_flip,
                 number_of_bits_to_flip, error, status, bitflip_pos,
                 error_syndrome, binary_decoded>>

\* Support.check_input(x, input_length) called on its own, lines 21-72;
\* one call per run
CheckInputCall(input, length) ==
  /\ LET r == check_input(input, length) IN
       /\ op' = "check_input"
       /\ x' = input
       /\ input_length' = length
       /\ result' = r.x
       /\ error' = r.error
  /\ before' = <<>>
  /\ bit_to_flip' = 0
  /\ number_of_bits_to_flip' = 0
  /\ flipped_bits' = {}
  /\ NoReport
  /\ UNCHANGED <<codeword, message, nfaults, pc>>

(* ------------------------------ inputs -------------------------------- *)
\* the characters "1","0","1","0" of the bit vector <<1,0,1,0>>
BitChars(b) == [i \in 1..Len(b) |-> DigitChars[b[i] + 1]]

\* the int literal written with the digits of d: 1010 for <<1,0,1,0>>
RECURSIVE DigitsValueTo(_, _)
DigitsValueTo(d, k) == IF k = 0 THEN 0 ELSE 10 * DigitsValueTo(d, k - 1) + d[k]
DigitsValue(d) == DigitsValueTo(d, Len(d))

\* the forms in which a caller writes the bit vector b
BitForms(b) ==
  { ListArg(IntElems(b)), ArrayArg(IntElems(b)), StrArg(BitChars(b)),
    StrArg(<<" ">> \o BitChars(b) \o <<" ">>), IntArg(DigitsValue(b)) }

SeqsUpTo(S, n) == UNION {[1..k -> S] : k \in 0..n}

\* what encoder is called with: every 4-bit message in every form, and a set
EncoderArgs == (UNION {BitForms(m) : m \in Messages}) \cup {OtherArg("set")}

JunkElems == {IntElem(0), IntElem(1), IntElem(2), FloatElem(1)}
JunkChars == {"0", "1", "2", " ", "a"}
JunkDigits == {0, 1, 2}

\* what check_input is called with
ValidatorArgs ==
  (UNION {BitForms(b) : b \in Messages \cup Codewords})
  \cup {ListArg(s) : s \in SeqsUpTo(JunkElems, MaxLen)}
  \cup {ArrayArg(s) : s \in SeqsUpTo(JunkElems, 2)}
  \cup {StrArg(s) : s \in SeqsUpTo(JunkChars, MaxLen)}
  \cup {IntArg(DigitsValue(s)) : s \in SeqsUpTo(JunkDigits, MaxLen)}
  \cup {IntArg(-DigitsValue(s)) : s \in SeqsUpTo(JunkDigits, 2)}
  \cup {OtherArg(t) : t \in {"set", "tuple", "float", "NoneType"}}

(* --------------------------- specifications --------------------------- *)
Encoder ==
  /\ pc = "idle"
  /\ op = "none"
  /\ \E input \in EncoderArgs : EncoderCall(input)

CheckInput ==
  /\ pc = "idle"
  /\ op = "none"
  /\ \E input \in ValidatorArgs : \E length \in {MessageLength, CodewordLength} :
       CheckInputCall(input, length)

Next ==
  \/ Encoder
  \/ ParityCheck
  \/ Decoder
  \/ \E index \in (-MaxIndex)..MaxIndex : BitflipSpecific(index)
  \/ \E count \in 0..MaxCount : BitflipRand(count)
  \/ BitflipRandLoop

Spec == Init /\ [][Next]_vars

\* check_input on its own, over every argument of ValidatorArgs
InitValidator == Init /\ codeword = [i \in 1..CodewordLength |-> 0]

NextValidator == CheckInput

SpecValidator == InitValidator /\ [][NextValidator]_vars

(* ------------------------------ claims -------------------------------- *)
\* the decoder has just run on the codeword of `message` with exactly the
\* positions of `flips` (1-based) inverted
DecodedWithFlips(flips) ==
  /\ op = "decoder"
  /\ message # <<>>
  /\ Diff(before, EncodeWith(message)) = flips

\* column c (1-based) of H
HColumn(c) == [k \in 1..Len(H) |-> H[k][c]]

\* C1: decoding the codeword encoder returned for a message reports NoError
\* and recovers exactly that message.
RoundTrip ==
  DecodedWithFlips({}) =>
    /\ error = "none"
    /\ status = "NoError"
    /\ binary_decoded = message

RoundTripWitness ==
  /\ DecodedWithFlips({})
  /\ nfaults = 0
  /\ message = <<0, 1, 1, 0>>

\* C2: decoding an encoded message with the single position p inverted
\* reports Uncorrectable when the syndrome has weight 1, which happens exactly
\* for p in {1, 2, 4}, and otherwise reports Corrected(p) and recovers the
\* message.
SingleErrorCorrection ==
  \A p \in 1..CodewordLength :
    DecodedWithFlips({p}) =>
      /\ error = "none"
      /\ NpSum(error_syndrome) = 1 <=> p \in {1, 2, 4}
      /\ IF NpSum(error_syndrome) = 1
         THEN status = "Uncorrectable"
         ELSE /\ status = "Corrected"
              /\ bitflip_pos = p
              /\ binary_decoded = message

SingleErrorCorrectionWitness ==
  /\ DecodedWithFlips({3})
  /\ message = <<1, 0, 1, 0>>
  /\ nfaults = 1

\* C3: decoder is total and three-way on every 7-bit vector: NoError exactly
\* for syndrome weight 0, Uncorrectable exactly for weight 1, Corrected(c)
\* exactly for weight 2 or 3 with c the one column of H equal to the syndrome;
\* the column search never fails; a message is printed except when
\* Uncorrectable.
DecoderThreeWay ==
  op = "decoder" =>
    LET syn == MatmulMod2(H, before)
        w == NpSum(syn)
    IN  /\ error = "none"
        /\ error_syndrome = syn
        /\ status \in {"NoError", "Uncorrectable", "Corrected"}
        /\ status = "NoError" <=> w = 0
        /\ status = "Uncorrectable" <=> w = 1
        /\ status = "Corrected" <=> w \in {2, 3}
        /\ status = "Corrected" =>
             /\ bitflip_pos \in 1..CodewordLength
             /\ \A c \in 1..CodewordLength : HColumn(c) = syn <=> c = bitflip_pos
        /\ status = "Uncorrectable" <=> binary_decoded = <<>>
        /\ status # "Uncorrectable" => binary_decoded \in Messages

DecoderThreeWayWitness ==
  /\ op = "decoder"
  /\ message = <<>>
  /\ NpSum(error_syndrome) = 3

\* C4: the syndrome parity_check computes is zero exactly when the codeword
\* is the encoding of some 4-bit message.
SyndromeZeroIffCodeword ==
  op = "parity_check" =>
    /\ error = "none"
    /\ error_syndrome = <<0, 0, 0>> <=> \E m \in Messages : before = EncodeWith(m)
    /\ (message # <<>> /\ before = EncodeWith(message)) => status = "NoError"

SyndromeZeroIffCodewordWitness ==
  /\ op = "parity_check"
  /\ message = <<1, 1, 0, 1>>
  /\ before = EncodeWith(message)
  /\ error_syndrome = <<0, 0, 0>>

\* C5: decoder changes the codeword only when it reports Corrected(c), and
\* then inverts exactly the bit at position c; parity_check never changes it.
CodewordFrame ==
  /\ op = "decoder" =>
       IF status = "Corrected"
       THEN /\ Diff(before, codeword) = {bitflip_pos}
            /\ codeword[bitflip_pos] = 1 - before[bitflip_pos]
       ELSE codeword = before
  /\ op = "parity_check" => codeword = before

CodewordFrameWitness ==
  /\ op = "decoder"
  /\ status = "Corrected"
  /\ before[bitflip_pos] = 1
  /\ codeword # before

\* C6: a double fault is miscorrected: decoding an encoded message with
\* positions 1 and 2 inverted reports Corrected(3), a position that was not
\* inverted, because the syndrome of the two faults is column 3 of H.
DoubleFaultMiscorrection ==
  DecodedWithFlips({1, 2}) =>
    /\ status = "Corrected"
    /\ bitflip_pos = 3
    /\ bitflip_pos \notin Diff(before, EncodeWith(message))
    /\ error_syndrome = HColumn(bitflip_pos)

DoubleFaultMiscorrectionWitness ==
  /\ DecodedWithFlips({1, 2})
  /\ nfaults = 2
  /\ status = "Corrected"
  /\ bitflip_pos \notin {1, 2}

\* C7: a call of bitflip_rand with a count in 0..2 never leaves the codeword
\* differing from its input in more than `count` positions, and once it has
\* returned the codeword differs in exactly `count` positions, those of
\* flipped_bits.
BitflipRandFlipsCount ==
  (op = "bitflip_rand" /\ error = "none"
     /\ number_of_bits_to_flip \in 0..MaxBitflips) =>
    /\ Cardinality(Diff(before, codeword)) <= number_of_bits_to_flip
    /\ pc = "idle" =>
         /\ Cardinality(Diff(before, codeword)) = number_of_bits_to_flip
         /\ Diff(before, codeword) = {i + 1 : i \in flipped_bits}

\* C8: bitflip_rand with a count above 2 and bitflip_specific with an index
\* outside 0..6 raise ValueError and leave the codeword as it was.
FaultInjectionRejected ==
  /\ (op = "bitflip_rand" /\ number_of_bits_to_flip > MaxBitflips) =>
       (error = "ValueError" /\ codeword = before)
  /\ (op = "bitflip_specific" /\ bit_to_flip \notin 0..LastIndex) =>
       (error = "ValueError" /\ codeword = before)

\* x is the bit vector b written as a list, an array, a digit string or the
\* integer with the digits of b
WrittenAs(b) ==
  \/ x.type \in {"list", "ndarray"} /\ x.items = IntElems(b)
  \/ x.type = "str" /\ RemoveSpaces(x.items) = BitChars(b)
  \/ x.type = "int" /\ x.val = DigitsValue(b)

\* C9: check_input accepts every n-bit vector, n in {4, 7}, written as a
\* sequence, a digit string or the integer of its digits, and returns it
\* unchanged; it rejects everything else, with TypeError for a type that is
\* no int, str, sequence or array; what it returns has n elements in {0, 1}.
ValidatorContract ==
  op = "check_input" =>
    LET Vectors == [1..input_length -> Bits] IN
    /\ \A b \in Vectors : WrittenAs(b) => (error = "none" /\ result = b)
    /\ (\A b \in Vectors : ~WrittenAs(b)) => error \in {"TypeError", "ValueError"}
    /\ x.type \notin {"int", "str", "list", "ndarray", "tuple"} => error = "TypeError"
    /\ error = "none" => result \in Vectors

\* C10: a two-bit error is never silent and never repaired: decoding an
\* encoded message with two distinct positions inverted never reports
\* NoError; it reports Uncorrectable, or Corrected(k) with k neither of the
\* two, and then the printed message differs from the one encoded.
DoubleFaultNeverRepaired ==
  \A i, j \in 1..CodewordLength :
    (i # j /\ DecodedWithFlips({i, j})) =>
      /\ error = "none"
      /\ status \in {"Uncorrectable", "Corrected"}
      /\ status = "Corrected" =>
           /\ bitflip_pos \notin {i, j}
           /\ binary_decoded # message

DoubleFaultNeverRepairedWitness ==
  /\ DecodedWithFlips({5, 6})
  /\ status = "Corrected"
  /\ binary_decoded # message
====
